---- MODULE Spec2Model ----
(***************************************************************************)
(* Frame loop, scene tree, rigidbody overlap tracking and player control   *)
(* of yet-another-2d-engine.                                               *)
(*                                                                         *)
(* MainEngine.cpp, PlayerNode.cpp and Map.cpp are modelled from their      *)
(* code.  Node, Transform, CollisionShape and RigidbodyNode are not part   *)
(* of the available sources; their behaviour is modelled from sections     *)
(* 4.1 - 4.4 of the design document.                                       *)
(*                                                                         *)
(* float values are modelled as exact rationals <<numerator, denominator>> *)
(* in lowest terms with a positive denominator (rounding is abstracted).   *)
(* Only the x and y components of positions are kept: z, rotation and      *)
(* scale never enter an AABB test.                                         *)
(***************************************************************************)
EXTENDS Integers, Sequences, FiniteSets, TLC

VARIABLES
    pc,             \* position of MainLoop: "frame", "update", "transform", "draw", "present", "exit", "fault"
    idx,            \* index, in depth-first order, of the next node of the current pass
    frame,          \* number of loop iterations started
    deltaSeconds,   \* MainLoop's deltaSeconds of the current iteration
    keys,           \* GLFW key state of W, S, A, D, refreshed by glfwPollEvents
    children,       \* Node::children, per node (a sequence, in AddChild order)
    parent,         \* Node::parent back-reference, per node
    position,       \* Transform::position (local), per node
    world,          \* cached world position written by CalculateWorldTransform
    velocity,       \* RigidbodyNode::velocity, per rigidbody
    acceleration,   \* RigidbodyNode::acceleration, per rigidbody
    overlapped,     \* RigidbodyNode::overlappedNodesThisFrame, per rigidbody
    isGrounded,     \* PlayerNode::Update's local isGrounded, as last computed
    nUpdate,        \* per node: number of Update calls that reached it
    nTransform,     \* per node: number of CalculateWorldTransform calls that reached it
    nDraw,          \* per node: number of Draw calls that reached it
    playerSpeed, fallGravityFactor, buttonPressJumpGravityFactor,
    startJumpVelocity, gravityAcceleration,   \* PlayerNode's tuning fields
    lastCall        \* the last PlayerNode tuning method called, with its arguments

vars == <<pc, idx, frame, deltaSeconds, keys, children, parent, position, world,
          velocity, acceleration, overlapped, isGrounded, nUpdate, nTransform, nDraw,
          playerSpeed, fallGravityFactor, buttonPressJumpGravityFactor,
          startJumpVelocity, gravityAcceleration, lastCall>>

sceneVars == <<children, parent>>
bodyVars == <<position, velocity, acceleration, overlapped, isGrounded>>
tuningVars == <<playerSpeed, fallGravityFactor, buttonPressJumpGravityFactor,
                startJumpVelocity, gravityAcceleration, lastCall>>
countVars == <<nUpdate, nTransform, nDraw>>

----------------------------------------------------------------------------
(* Bounds *)

\* Number of MainLoop iterations explored.
MaxFrames == 2

----------------------------------------------------------------------------
(* Rational arithmetic standing for float *)

RECURSIVE GCD(_, _)
GCD(a, b) == IF b = 0 THEN a ELSE GCD(b, a % b)

AbsInt(n) == IF n < 0 THEN -n ELSE n

Norm(n, d) ==
    LET g == GCD(AbsInt(n), d)
    IN  <<n \div g, d \div g>>

R(n, d) == Norm(n, d)
RInt(n) == <<n, 1>>
RZero == <<0, 1>>
RAdd(a, b) == Norm(a[1] * b[2] + b[1] * a[2], a[2] * b[2])
RNeg(a) == <<-a[1], a[2]>>
RSub(a, b) == RAdd(a, RNeg(b))
RMul(a, b) == Norm(a[1] * b[1], a[2] * b[2])
\* a / b for b # 0
RDiv(a, b) ==
    IF b[1] > 0 THEN Norm(a[1] * b[2], a[2] * b[1])
    ELSE Norm(-(a[1] * b[2]), -(a[2] * b[1]))
RLt(a, b) == a[1] * b[2] < b[1] * a[2]
RAbs(a) == <<AbsInt(a[1]), a[2]>>

Vec(x, y) == [x |-> x, y |-> y]
VZero == Vec(RZero, RZero)
VAdd(u, v) == Vec(RAdd(u.x, v.x), RAdd(u.y, v.y))
VScale(u, k) == Vec(RMul(u.x, k), RMul(u.y, k))

----------------------------------------------------------------------------
(* The scene assembled by PrepareScene *)

NoNode == "null"

\* The lines of res/other/map, first line first: one brick with a path tile
\* on the line after it.  Map places line l at y = l, so the brick is the lower tile.
MapFile == << <<"#">>, <<" ">> >>

\* The node cloned for each character of the map file, line by line.
TileId == << <<"tile_0_0">>, <<"tile_1_0">> >>

\* The clone of the sprite child that brickRigidBody carries.
TileSprite(t) == t \o "_sprite"

MapCells == UNION {{<<l, c>> : c \in 1..Len(MapFile[l])} : l \in 1..Len(MapFile)}
BrickTiles == {TileId[k[1]][k[2]] : k \in {q \in MapCells : MapFile[q[1]][q[2]] = "#"}}
PathTiles == {TileId[k[1]][k[2]] : k \in {q \in MapCells : MapFile[q[1]][q[2]] = " "}}
CellOf(t) == CHOOSE k \in MapCells : TileId[k[1]][k[2]] = t

\* Map::Map: tile of (lineNumber, characterNumber) is placed at (characterNumber, lineNumber, 0).
TilePosition(t) == Vec(RInt(CellOf(t)[2] - 1), RInt(CellOf(t)[1] - 1))

RECURSIVE MaxRowLen(_)
MaxRowLen(l) ==
    IF l > Len(MapFile) THEN 0
    ELSE LET rest == MaxRowLen(l + 1)
         IN  IF Len(MapFile[l]) > rest THEN Len(MapFile[l]) ELSE rest

\* Map::Map: size.x is the longest line, size.y the number of lines.
MapSize == Vec(RInt(MaxRowLen(1)), RInt(Len(MapFile)))

\* Map::Map: the tiles are added line by line, character by character.
RECURSIVE MapChildren(_)
MapChildren(l) == IF l > Len(MapFile) THEN <<>> ELSE TileId[l] \o MapChildren(l + 1)

Rigidbodies == BrickTiles \cup {"player", "jumpTrigger", "ball"}
PlainNodes == {"root", "map", "playerSprite", "camera", "playerSprite2", "ballSprite"}
                 \cup PathTiles \cup {TileSprite(t) : t \in BrickTiles}
Nodes == Rigidbodies \cup PlainNodes

\* PlayerNode::PlayerNode adds sprite, camera and jump trigger; PrepareScene adds a second sprite.
PlayerChildren == <<"playerSprite", "camera", "jumpTrigger", "playerSprite2">>

\* The same player with its jump trigger missing (the lookup in PlayerNode::Update finds nothing).
PlayerChildrenNoTrigger == <<"playerSprite", "camera", "playerSprite2">>

SceneChildren(playerKids) ==
    [n \in Nodes |->
        CASE n = "root" -> <<"map", "player", "ball">>
          [] n = "map" -> MapChildren(1)
          [] n = "player" -> playerKids
          [] n = "ball" -> <<"ballSprite">>
          [] n \in BrickTiles -> <<TileSprite(n)>>
          [] OTHER -> <<>>]

Range(s) == {s[i] : i \in 1..Len(s)}

\* Node::AddChild sets the child's back-reference.
SceneParent(kids) ==
    [n \in Nodes |->
        IF \E p \in Nodes : n \in Range(kids[p])
        THEN CHOOSE p \in Nodes : n \in Range(kids[p])
        ELSE NoNode]

\* Local positions set while the scene is assembled.
ScenePosition ==
    [n \in Nodes |->
        CASE n = "map" -> Vec(RAdd(RDiv(RNeg(MapSize.x), RInt(2)), R(1, 2)),
                              RAdd(RDiv(RNeg(MapSize.y), RInt(2)), R(1, 2)))
          [] n \in BrickTiles \cup PathTiles -> TilePosition(n)
          [] n = "jumpTrigger" -> Vec(RZero, R(-1, 2))
          [] n = "ball" -> Vec(RInt(-5), RInt(1))
          [] OTHER -> VZero]

\* The collision shapes built through CollisionShapeFactory.
Circle(radius) == [kind |-> "circle", radius |-> radius]
Rectangle(height, width) == [kind |-> "rectangle", height |-> height, width |-> width]

\* PlayerNode::PlayerNode: CreateCircleCollisionShape(0.5f - (1.f/32.f)).
PlayerShape == Circle(RSub(R(5, 10), RDiv(RInt(1), RInt(32))))
\* PlayerNode::PlayerNode: CreateRectangleCollisionShape(0.15f, 0.7f).
JumpTriggerShape == Rectangle(R(15, 100), R(7, 10))
\* CreateNodeMap: CreateRectangleCollisionShape(1, 1).
BrickShape == Rectangle(RInt(1), RInt(1))
\* PrepareScene: CreateCircleCollisionShape(0.49).
BallShape == Circle(R(49, 100))

ShapeOf(n) ==
    CASE n = "player" -> PlayerShape
      [] n = "jumpTrigger" -> JumpTriggerShape
      [] n = "ball" -> BallShape
      [] OTHER -> BrickShape

\* Half extents of the axis-aligned box of a shape: a circle of radius r is
\* the square of side 2r.
HalfExtentOf(shape) ==
    IF shape.kind = "circle" THEN Vec(shape.radius, shape.radius)
    ELSE Vec(RDiv(shape.width, RInt(2)), RDiv(shape.height, RInt(2)))

HalfExtent(n) == HalfExtentOf(ShapeOf(n))

\* SetIsKinematic(true) left out.
NeverKinematic(n) == FALSE

\* CreateNodeMap: the brick prototype is kinematic, and so is each clone.
IsKinematic(n) == n \in BrickTiles

\* PlayerNode::PlayerNode: the jump trigger is a trigger.
IsTrigger(n) == n = "jumpTrigger"

----------------------------------------------------------------------------
(* Node: traversal and lookup *)

RECURSIVE Traverse(_), TraverseAll(_)
\* Depth-first order in which Update, CalculateWorldTransform and Draw visit the subtree of n.
Traverse(n) == <<n>> \o TraverseAll(children[n])
TraverseAll(s) == IF s = <<>> THEN <<>> ELSE Traverse(Head(s)) \o TraverseAll(Tail(s))

Order == Traverse("root")
InTree == Range(Order)
Descendants(n) == Range(Tail(Traverse(n)))

IsRigidbodyNode(n) == n \in Rigidbodies

\* Node::GetChild with the predicate "is a RigidbodyNode": the first match, or null.
GetChildRigidbody(n) ==
    LET found == SelectSeq(Tail(Traverse(n)), IsRigidbodyNode)
    IN  IF found = <<>> THEN NoNode ELSE Head(found)

----------------------------------------------------------------------------
(* Transform *)

RECURSIVE WorldOf(_, _)
\* Transform::GetWorldMatrix read while positions are pos: parentWorld x local,
\* recomputed on read because a changed position marks the subtree dirty.
WorldOf(pos, n) ==
    IF parent[n] = NoNode THEN pos[n] ELSE VAdd(WorldOf(pos, parent[n]), pos[n])

----------------------------------------------------------------------------
(* RigidbodyNode *)

\* AABB test: overlap iff the centres are closer than the summed half extents on both axes.
Overlaps(pos, a, b) ==
    LET ca == WorldOf(pos, a)
        cb == WorldOf(pos, b)
    IN  /\ RLt(RAbs(RSub(ca.x, cb.x)), RAdd(HalfExtent(a).x, HalfExtent(b).x))
        /\ RLt(RAbs(RSub(ca.y, cb.y)), RAdd(HalfExtent(a).y, HalfExtent(b).y))

\* Step 3 of RigidbodyNode::Update: every other rigidbody of the scene tree,
\* except the node itself and its descendants, whose box overlaps this node's.
OverlapSet(pos, n) ==
    {m \in (Rigidbodies \cap InTree) \ ({n} \cup Descendants(n)) : Overlaps(pos, n, m)}

\* Step 1 of RigidbodyNode::Update: semi-implicit Euler, skipped for a kinematic body.
IntegrateVelocity(n, v, a, dt) == IF IsKinematic(n) THEN v ELSE VAdd(v, VScale(a, dt))
IntegratePosition(n, p, v2, dt) == IF IsKinematic(n) THEN p ELSE VAdd(p, VScale(v2, dt))

\* The computed set added to the old one instead of replacing it.
NewOverlappedAccumulate(old, computed) == old \cup computed

\* Step 4 of RigidbodyNode::Update: the set computed this frame replaces the old one.
NewOverlapped(old, computed) == computed

----------------------------------------------------------------------------
(* PlayerNode *)

KeyStates == [W : BOOLEAN, S : BOOLEAN, A : BOOLEAN, D : BOOLEAN]
NoKeys == [W |-> FALSE, S |-> FALSE, A |-> FALSE, D |-> FALSE]

\* PlayerNode::GetMovementInput: each pressed key adds its unit vector.
GetMovementInput(k) ==
    [x |-> (IF k.A THEN -1 ELSE 0) + (IF k.D THEN 1 ELSE 0),
     y |-> (IF k.W THEN 1 ELSE 0) + (IF k.S THEN -1 ELSE 0)]

\* SetJumpParameters with the second half of jumpTime assigned instead of added.
JumpParametersAssign(targetHeight, targetDistance, speed, fall, press) ==
    LET jumpTime == RMul(RDiv(RDiv(targetDistance, RInt(4)), speed), fall)
        jumpVelocity == RDiv(RMul(RInt(2), targetHeight), jumpTime)
    IN  [startJumpVelocity |-> jumpVelocity,
         gravityAcceleration |-> RDiv(RDiv(RNeg(jumpVelocity), jumpTime), press)]

\* PlayerNode::SetJumpParameters, from the fields speed, fall and press as they are when it is called.
JumpParameters(targetHeight, targetDistance, speed, fall, press) ==
    LET quarter == RDiv(RDiv(targetDistance, RInt(4)), speed)
        jumpTime == RAdd(quarter, RMul(RDiv(RDiv(targetDistance, RInt(4)), speed), fall))
        jumpVelocity == RDiv(RMul(RInt(2), targetHeight), jumpTime)
    IN  [startJumpVelocity |-> jumpVelocity,
         gravityAcceleration |-> RDiv(RDiv(RNeg(jumpVelocity), jumpTime), press)]

\* PlayerNode::PlayerNode: the three factors are assigned, then SetJumpParameters(2, 0.5).
PlayerConstructor ==
    LET speed == RInt(7)
        fall == R(8, 10)
        press == R(5, 10)
        jump == JumpParameters(RInt(2), R(5, 10), speed, fall, press)
    IN  [playerSpeed |-> speed, fallGravityFactor |-> fall,
         buttonPressJumpGravityFactor |-> press,
         startJumpVelocity |-> jump.startJumpVelocity,
         gravityAcceleration |-> jump.gravityAcceleration,
         lastCall |-> [op |-> "SetJumpParameters", a |-> RInt(2), b |-> R(5, 10)]]

\* What dereferencing the looked-up trigger can do: read its overlap set, or,
\* for a null pointer (undefined behaviour), fault or read an arbitrary value.
DerefOutcomes(trigger) ==
    IF trigger # NoNode THEN {"read"} ELSE {"fault", "garbage_nonempty", "garbage_empty"}

\* PlayerNode::Update, line 57: isGrounded.
Grounded(trigger, outcome) ==
    IF outcome = "read" THEN overlapped[trigger] # {} ELSE outcome = "garbage_nonempty"

\* The horizontal acceleration without the speed limit.
HorizontalAccelerationNoLimit(v, input) ==
    IF AbsInt(input.x) > 0
    THEN RMul(RInt(input.x), RInt(100))
    ELSE RMul(v.x, RInt(-10))

\* PlayerNode::Update, lines 48-51: the horizontal acceleration.
HorizontalAcceleration(v, input) ==
    IF RLt(RAbs(v.x), playerSpeed) /\ AbsInt(input.x) > 0
    THEN RMul(RInt(input.x), RInt(100))
    ELSE RMul(v.x, RInt(-10))

\* The jump test without the grounded condition.
JumpVelocityAnywhere(v, input, grounded) ==
    IF input.y > 0 THEN [v EXCEPT !.y = startJumpVelocity] ELSE v

\* PlayerNode::Update, lines 59-63: the velocity after the jump test.
JumpVelocity(v, input, grounded) ==
    IF input.y > 0 /\ grounded THEN [v EXCEPT !.y = startJumpVelocity] ELSE v

\* The vertical acceleration with the fall factor applied whenever the player moves down.
VerticalAccelerationFallAlways(v, input, grounded) ==
    LET base == gravityAcceleration
        fall == IF RLt(v.y, RZero) THEN RMul(base, fallGravityFactor) ELSE base
    IN  IF input.y > 0 THEN RMul(fall, buttonPressJumpGravityFactor) ELSE fall

\* PlayerNode::Update, lines 65-74: the vertical acceleration, from the velocity after the jump test.
VerticalAcceleration(v, input, grounded) ==
    LET base == gravityAcceleration
        fall == IF ~grounded /\ RLt(v.y, RZero) THEN RMul(base, fallGravityFactor) ELSE base
    IN  IF input.y > 0 THEN RMul(fall, buttonPressJumpGravityFactor) ELSE fall

----------------------------------------------------------------------------
(* MainEngine::MainLoop *)

\* The wall-clock deltas a frame may measure: none, or an eighth of a second.
DeltaChoices == {RZero, R(1, 8)}

\* The passes with Draw ahead of CalculateWorldTransform.
PassAfterDrawEarly(p) ==
    CASE p = "update" -> "draw"
      [] p = "draw" -> "transform"
      [] p = "transform" -> "present"

\* Lines 114-125: Update, CalculateWorldTransform, Draw, then present and poll.
PassAfter(p) ==
    CASE p = "update" -> "transform"
      [] p = "transform" -> "draw"
      [] p = "draw" -> "present"

\* Line 114: the first pass of an iteration.
FirstPass == "update"

CurrentNode == Order[idx]

\* One node of the current pass has been handled: go to the next, or to the next pass.
Advance ==
    IF idx < Len(Order)
    THEN pc' = pc /\ idx' = idx + 1
    ELSE pc' = PassAfter(pc) /\ idx' = 1

Bump(counter, n) == [counter EXCEPT ![n] = @ + 1]

\* Lines 91-97: the loop test passed and the time of the iteration is taken.
BeginFrame ==
    /\ pc = "frame"
    /\ frame < MaxFrames
    /\ \E d \in DeltaChoices : deltaSeconds' = d
    /\ frame' = frame + 1
    /\ pc' = FirstPass
    /\ idx' = 1
    /\ UNCHANGED <<keys, sceneVars, bodyVars, world, countVars, tuningVars>>

\* Node::Update of a node that is neither a rigidbody nor the player.
UpdateNode ==
    /\ pc = "update"
    /\ CurrentNode \in PlainNodes
    /\ nUpdate' = Bump(nUpdate, CurrentNode)
    /\ Advance
    /\ UNCHANGED <<frame, deltaSeconds, keys, sceneVars, bodyVars, world,
                   nTransform, nDraw, tuningVars>>

\* RigidbodyNode::Update of node n entered with velocity v and acceleration a.
RigidbodyUpdate(n, v, a) ==
    LET v2 == IntegrateVelocity(n, v, a, deltaSeconds)
        p2 == IntegratePosition(n, position[n], v2, deltaSeconds)
        pos2 == [position EXCEPT ![n] = p2]
    IN  /\ velocity' = [velocity EXCEPT ![n] = v2]
        /\ acceleration' = [acceleration EXCEPT ![n] = a]
        /\ position' = pos2
        /\ overlapped' = [overlapped EXCEPT ![n] = NewOverlapped(@, OverlapSet(pos2, n))]

UpdateRigidbody ==
    /\ pc = "update"
    /\ CurrentNode \in Rigidbodies \ {"player"}
    /\ RigidbodyUpdate(CurrentNode, velocity[CurrentNode], acceleration[CurrentNode])
    /\ nUpdate' = Bump(nUpdate, CurrentNode)
    /\ Advance
    /\ UNCHANGED <<frame, deltaSeconds, keys, sceneVars, isGrounded, world,
                   nTransform, nDraw, tuningVars>>

\* PlayerNode::Update.
UpdatePlayer ==
    /\ pc = "update"
    /\ CurrentNode = "player"
    /\ LET input == GetMovementInput(keys)
           trigger == GetChildRigidbody("player")
       IN  \E outcome \in DerefOutcomes(trigger) :
             IF outcome = "fault"
             THEN /\ pc' = "fault"
                  /\ UNCHANGED <<idx, bodyVars, nUpdate>>
             ELSE LET grounded == Grounded(trigger, outcome)
                      v == JumpVelocity(velocity["player"], input, grounded)
                      a == Vec(HorizontalAcceleration(velocity["player"], input),
                               VerticalAcceleration(v, input, grounded))
                  IN  /\ isGrounded' = grounded
                      /\ RigidbodyUpdate("player", v, a)
                      /\ nUpdate' = Bump(nUpdate, "player")
                      /\ Advance
    /\ UNCHANGED <<frame, deltaSeconds, keys, sceneVars, world, nTransform, nDraw, tuningVars>>

\* Node::CalculateWorldTransform of one node: parent's world transform x local.
TransformNode ==
    /\ pc = "transform"
    /\ world' = [world EXCEPT ![CurrentNode] =
                    IF parent[CurrentNode] = NoNode THEN position[CurrentNode]
                    ELSE VAdd(world[parent[CurrentNode]], position[CurrentNode])]
    /\ nTransform' = Bump(nTransform, CurrentNode)
    /\ Advance
    /\ UNCHANGED <<frame, deltaSeconds, keys, sceneVars, bodyVars, nUpdate, nDraw, tuningVars>>

\* Node::Draw of one node.
DrawNode ==
    /\ pc = "draw"
    /\ nDraw' = Bump(nDraw, CurrentNode)
    /\ Advance
    /\ UNCHANGED <<frame, deltaSeconds, keys, sceneVars, bodyVars, world,
                   nUpdate, nTransform, tuningVars>>

\* Lines 118-125 and the loop test: the frame is presented, glfwPollEvents
\* refreshes the key state and may record a close request.
EndFrame ==
    /\ pc = "present"
    /\ \E k \in KeyStates : keys' = k
    /\ \E close \in BOOLEAN : pc' = IF close THEN "exit" ELSE "frame"
    /\ UNCHANGED <<idx, frame, deltaSeconds, sceneVars, bodyVars, world, countVars, tuningVars>>

Next ==
    \/ BeginFrame
    \/ UpdateNode
    \/ UpdateRigidbody
    \/ UpdatePlayer
    \/ TransformNode
    \/ DrawNode
    \/ EndFrame

\* The state PrepareScene leaves, for a player with children playerKids,
\* key state k and rigidbody velocities v and accelerations a.
SceneInit(playerKids, k, v, a) ==
    /\ pc = "frame"
    /\ idx = 1
    /\ frame = 0
    /\ deltaSeconds = RZero
    /\ keys = k
    /\ children = SceneChildren(playerKids)
    /\ parent = SceneParent(SceneChildren(playerKids))
    /\ position = ScenePosition
    /\ world = [n \in Nodes |-> WorldOf(ScenePosition, n)]
    /\ velocity = v
    /\ acceleration = a
    /\ overlapped = [n \in Rigidbodies |-> {}]
    /\ isGrounded = FALSE
    /\ nUpdate = [n \in Nodes |-> 0]
    /\ nTransform = [n \in Nodes |-> 0]
    /\ nDraw = [n \in Nodes |-> 0]
    /\ playerSpeed = PlayerConstructor.playerSpeed
    /\ fallGravityFactor = PlayerConstructor.fallGravityFactor
    /\ buttonPressJumpGravityFactor = PlayerConstructor.buttonPressJumpGravityFactor
    /\ startJumpVelocity = PlayerConstructor.startJumpVelocity
    /\ gravityAcceleration = PlayerConstructor.gravityAcceleration
    /\ lastCall = PlayerConstructor.lastCall

AtRest == [n \in Rigidbodies |-> VZero]

\* The scene of PrepareScene: no key pressed yet, every body at rest.
Init == SceneInit(PlayerChildren, NoKeys, AtRest, AtRest)

Spec == Init /\ [][Next]_vars

----------------------------------------------------------------------------
(* Other starting states *)

\* Velocities and accelerations given to bodies through SetVelocity and
\* SetAcceleration before the loop starts.
StartMotions == {VZero, Vec(RInt(8), RInt(-1)), Vec(RInt(-8), RInt(2))}

\* The scene of PrepareScene with any key state, the player given the motion
\* pm and the bricks and the ball given the motion bm.
InitInputs ==
    \E k \in KeyStates, pm \in StartMotions, bm \in StartMotions :
        SceneInit(PlayerChildren, k,
                  [n \in Rigidbodies |->
                      IF n = "player" THEN pm ELSE IF n = "jumpTrigger" THEN VZero ELSE bm],
                  [n \in Rigidbodies |->
                      IF n = "player" THEN pm ELSE IF n = "jumpTrigger" THEN VZero ELSE bm])

SpecInputs == InitInputs /\ [][Next]_vars

\* The scene with a player that has no rigidbody child.
InitNoTrigger == SceneInit(PlayerChildrenNoTrigger, NoKeys, AtRest, AtRest)

SpecNoTrigger == InitNoTrigger /\ [][Next]_vars

----------------------------------------------------------------------------
(* PlayerNode's tuning methods called on a constructed player *)

\* Values passed to SetPlayerSpeed, to the two factor setters, and to
\* SetJumpParameters as target height and target distance.
SpeedValues == {RInt(2), RInt(7)}
FactorValues == {R(1, 2), R(4, 5)}
HeightValues == {RInt(1), RInt(2)}
DistanceValues == {R(1, 2), RInt(3)}

Call(op, a, b) == [op |-> op, a |-> a, b |-> b]

SetPlayerSpeed ==
    /\ \E s \in SpeedValues :
          /\ playerSpeed' = s
          /\ lastCall' = Call("SetPlayerSpeed", s, RZero)
    /\ UNCHANGED <<fallGravityFactor, buttonPressJumpGravityFactor,
                   startJumpVelocity, gravityAcceleration>>
    /\ UNCHANGED <<pc, idx, frame, deltaSeconds, keys, sceneVars, bodyVars, world, countVars>>

SetFallGravityFactor ==
    /\ \E f \in FactorValues :
          /\ fallGravityFactor' = f
          /\ lastCall' = Call("SetFallGravityFactor", f, RZero)
    /\ UNCHANGED <<playerSpeed, buttonPressJumpGravityFactor,
                   startJumpVelocity, gravityAcceleration>>
    /\ UNCHANGED <<pc, idx, frame, deltaSeconds, keys, sceneVars, bodyVars, world, countVars>>

SetButtonPressJumpGravityFactor ==
    /\ \E f \in FactorValues :
          /\ buttonPressJumpGravityFactor' = f
          /\ lastCall' = Call("SetButtonPressJumpGravityFactor", f, RZero)
    /\ UNCHANGED <<playerSpeed, fallGravityFactor, startJumpVelocity, gravityAcceleration>>
    /\ UNCHANGED <<pc, idx, frame, deltaSeconds, keys, sceneVars, bodyVars, world, countVars>>

SetJumpParameters ==
    /\ \E h \in HeightValues, d \in DistanceValues :
          LET jump == JumpParameters(h, d, playerSpeed, fallGravityFactor,
                                     buttonPressJumpGravityFactor)
          IN  /\ startJumpVelocity' = jump.startJumpVelocity
              /\ gravityAcceleration' = jump.gravityAcceleration
              /\ lastCall' = Call("SetJumpParameters", h, d)
    /\ UNCHANGED <<playerSpeed, fallGravityFactor, buttonPressJumpGravityFactor>>
    /\ UNCHANGED <<pc, idx, frame, deltaSeconds, keys, sceneVars, bodyVars, world, countVars>>

NextTuning ==
    \/ SetPlayerSpeed
    \/ SetFallGravityFactor
    \/ SetButtonPressJumpGravityFactor
    \/ SetJumpParameters

SpecTuning == Init /\ [][NextTuning]_vars

----------------------------------------------------------------------------
(* Properties *)

\* The node whose Update returned in the last step, if the last step was one.
JustUpdated ==
    IF pc = "update" /\ idx > 1 THEN Order[idx - 1]
    ELSE IF pc = "transform" /\ idx = 1 THEN Order[Len(Order)]
    ELSE NoNode

\* The step in which PlayerNode::Update runs to its end.
PlayerStep == pc = "update" /\ CurrentNode = "player" /\ pc' # "fault"

\* C1: in every iteration of MainLoop the whole tree is updated, then the
\* whole tree's world transforms are computed, then the whole tree is drawn:
\* no node is transformed in frame k before every node was updated in frame k,
\* none is drawn before every node was transformed, none is updated in frame
\* k+1 before every node was drawn in frame k, and a frame that is presented
\* has had all three passes over every node.
C1_PassOrder ==
    /\ \A n \in InTree, m \in InTree :
          /\ nTransform[n] <= nUpdate[m]
          /\ nDraw[n] <= nTransform[m]
          /\ nUpdate[n] <= nDraw[m] + 1
    /\ pc = "present" =>
          \A n \in InTree : nUpdate[n] = frame /\ nTransform[n] = frame /\ nDraw[n] = frame

\* The draw pass of the second frame is under way.
C1_Witness == frame = 2 /\ pc = "draw" /\ idx = Len(Order)

\* C2: after the Update pass of a frame, overlap is symmetric for every pair
\* of rigidbodies: if B is in A's overlappedNodesThisFrame, A is in B's.
C2_OverlapSymmetric ==
    (pc = "transform" /\ idx = 1) =>
        \A a \in Rigidbodies, b \in Rigidbodies :
            b \in overlapped[a] => a \in overlapped[b]

\* C3: PlayerNode::Update treats the player as grounded when the jump
\* trigger's box overlaps a brick, and as not grounded when the trigger's box
\* overlaps no other body, for the positions the bodies have when it runs.
C3_GroundedReflectsPosition ==
    [][PlayerStep =>
          /\ (\E b \in BrickTiles : Overlaps(position, "jumpTrigger", b)) => isGrounded'
          /\ (\A m \in (Rigidbodies \cap InTree) \ {"jumpTrigger"} :
                  ~Overlaps(position, "jumpTrigger", m)) => ~isGrounded'
      ]_vars

\* C4: the jump test of PlayerNode::Update assigns startJumpVelocity to the
\* vertical velocity iff the vertical input is positive and the trigger's
\* overlap set is non-empty; otherwise it leaves the velocity as it was, and
\* it never changes the horizontal velocity.  (The velocity after the jump
\* test is the integrated velocity less acceleration x deltaSeconds.)
C4_JumpOnlyFromGround ==
    [][PlayerStep =>
          LET input == GetMovementInput(keys)
              grounded == overlapped["jumpTrigger"] # {}
              afterJump == VAdd(velocity'["player"],
                                VScale(acceleration'["player"], RNeg(deltaSeconds)))
          IN  /\ afterJump.x = velocity["player"].x
              /\ afterJump.y = (IF input.y > 0 /\ grounded
                                THEN startJumpVelocity ELSE velocity["player"].y)
      ]_vars

\* The player has just jumped: W held, trigger set non-empty.
C4_Witness ==
    /\ JustUpdated = "player"
    /\ isGrounded
    /\ keys.W /\ ~keys.S
    /\ deltaSeconds = RZero
    /\ velocity["player"].y = startJumpVelocity

C6_MissingTriggerHandled ==
    GetChildRigidbody("player") = NoNode => pc # "fault"

\* C7: no step changes the position or velocity of a kinematic body, whose
\* Update still recomputes its overlap set and which other bodies still
\* detect; a non-kinematic body's Update adds acceleration x deltaSeconds to
\* the velocity and then the new velocity x deltaSeconds to the position.
C7_KinematicNotIntegrated ==
    [][/\ \A b \in BrickTiles : position'[b] = position[b] /\ velocity'[b] = velocity[b]
       /\ (pc = "update" /\ CurrentNode \in Rigidbodies /\ pc' # "fault") =>
            LET n == CurrentNode
                others == (Rigidbodies \cap InTree) \ ({n} \cup Descendants(n))
            IN  /\ overlapped'[n] = {m \in others : Overlaps(position', n, m)}
                /\ n \notin BrickTiles =>
                      /\ position'[n] = VAdd(position[n], VScale(velocity'[n], deltaSeconds))
                      /\ velocity'[n].x = RAdd(velocity[n].x,
                                               RMul(acceleration'[n].x, deltaSeconds))
                      /\ n # "player" =>
                            velocity'[n] = VAdd(velocity[n], VScale(acceleration[n], deltaSeconds))
      ]_vars

\* A brick with a velocity has just been updated in a frame of positive
\* length and has detected the player.
C7_Witness ==
    /\ JustUpdated \in BrickTiles
    /\ velocity[JustUpdated] # VZero
    /\ acceleration[JustUpdated] # VZero
    /\ deltaSeconds # RZero
    /\ "player" \in overlapped[JustUpdated]

\* C8: after SetJumpParameters(h, d), with jumpTime = (d/4)/playerSpeed *
\* (1 + fallGravityFactor), startJumpVelocity = 2h/jumpTime and
\* gravityAcceleration = -(startJumpVelocity/jumpTime)/buttonPressJumpGravityFactor;
\* for the constructor's values startJumpVelocity > 0 > gravityAcceleration.
C8_JumpClosedForm ==
    lastCall.op = "SetJumpParameters" =>
        LET h == lastCall.a
            d == lastCall.b
            jumpTime == RMul(RDiv(RDiv(d, RInt(4)), playerSpeed),
                             RAdd(RInt(1), fallGravityFactor))
            constructed == /\ h = RInt(2) /\ d = R(1, 2) /\ playerSpeed = RInt(7)
                           /\ fallGravityFactor = R(4, 5)
                           /\ buttonPressJumpGravityFactor = R(1, 2)
        IN  /\ startJumpVelocity = RDiv(RMul(RInt(2), h), jumpTime)
            /\ gravityAcceleration =
                  RNeg(RDiv(RDiv(startJumpVelocity, jumpTime), buttonPressJumpGravityFactor))
            /\ constructed =>
                  RLt(RZero, startJumpVelocity) /\ RLt(gravityAcceleration, RZero)

\* SetJumpParameters has been called with other values than the constructor's.
C8_Witness ==
    /\ lastCall = Call("SetJumpParameters", RInt(1), RInt(3))
    /\ playerSpeed = RInt(2)
    /\ fallGravityFactor = R(1, 2)

\* C9: the vertical acceleration PlayerNode::Update sets is gravityAcceleration,
\* times fallGravityFactor exactly when the player is not grounded and moving
\* down, times buttonPressJumpGravityFactor exactly when W is held without S;
\* the previous acceleration plays no part.
C9_VerticalAcceleration ==
    [][PlayerStep =>
          LET grounded == overlapped["jumpTrigger"] # {}
              falling == ~grounded /\ RLt(velocity["player"].y, RZero)
              held == keys.W /\ ~keys.S
              afterFall == IF falling THEN RMul(gravityAcceleration, fallGravityFactor)
                           ELSE gravityAcceleration
          IN  acceleration'["player"].y =
                  (IF held THEN RMul(afterFall, buttonPressJumpGravityFactor) ELSE afterFall)
      ]_vars

\* The player has just been updated while airborne, falling and holding W.
C9_Witness ==
    /\ JustUpdated = "player"
    /\ ~isGrounded
    /\ keys.W /\ ~keys.S
    /\ acceleration["player"].y =
          RMul(RMul(gravityAcceleration, fallGravityFactor), buttonPressJumpGravityFactor)

\* C10: the input vector has each axis in {-1, 0, 1}, opposite keys
\* cancelling; the horizontal acceleration is input.x * 100 when
\* |velocity.x| < playerSpeed and input.x # 0, and velocity.x * -10 otherwise,
\* which is 0 at rest and opposes the motion at or above playerSpeed.
C10_HorizontalAcceleration ==
    [][PlayerStep =>
          LET ix == IF keys.A = keys.D THEN 0 ELSE IF keys.D THEN 1 ELSE -1
              iy == IF keys.W = keys.S THEN 0 ELSE IF keys.W THEN 1 ELSE -1
              vx == velocity["player"].x
              ax == acceleration'["player"].x
              slow == RLt(RAbs(vx), playerSpeed)
          IN  /\ GetMovementInput(keys) = [x |-> ix, y |-> iy]
              /\ ax = (IF slow /\ ix # 0 THEN RInt(100 * ix) ELSE RMul(vx, RInt(-10)))
              /\ (vx = RZero /\ ix = 0) => ax = RZero
              /\ ~slow => ax[1] * vx[1] < 0
      ]_vars

\* The player has just been updated at more than playerSpeed with D held:
\* the acceleration points against the key.
C10_Witness ==
    /\ JustUpdated = "player"
    /\ keys.D /\ ~keys.A
    /\ RLt(acceleration["player"].x, RZero)

====
